---------------------------- MODULE Spec2Model ----------------------------
(***************************************************************************)
(* Process table, wait/exit rendezvous and file-table duplication of       *)
(* kern/proc/proc.c (OS/161, OPT_SHELL build).                             *)
(*                                                                         *)
(* Pointers are small integers, NULL is 0.  A PCB address is an element of *)
(* PCB, an open-file handle an element of OFS, a kernel thread an element  *)
(* of THREADS.                                                             *)
(***************************************************************************)
EXTENDS Integers, FiniteSets, Sequences, TLC

\* ------------------------------------------------------------- bounds
\* proc.c:57 sets MAX_PROC to 100; the model runs the same code on a
\* smaller table.
MAX_PROC == 3
\* number of descriptors of a file table (OPEN_MAX of kern/limits.h)
OPEN_MAX == 1
\* open-file handles that are ever opened
MaxOF == 1
\* cap on the reference counts of a handle and of its vnode
MaxRef == 2
\* kernel threads of the concurrent specifications
NumThreads == 2
\* largest exit status
MaxStatus == 1
\* calls of proc_file_table_copy in a behaviour of SpecDup
MaxCopies == 2
\* address spaces that are ever created
MaxAS == 2

NULL == 0
\* kmalloc can hand out the kernel PCB, one PCB per table slot and one more
\* (the PCB of a creation that then finds the table full)
MaxPCB == MAX_PROC + 2
PCB == 1..MaxPCB
OFS == 1..MaxOF
THREADS == 1..NumThreads
FDS == 0..(OPEN_MAX - 1)
STATUS == 0..MaxStatus
AS == 1..MaxAS
\* identifiers handed to proc_search_pid: in range, 0, negative, too large
PIDARGS == (-1)..(MAX_PROC + 1)

\* lowest identifier proc_search_pid accepts (PID_MIN of kern/limits.h)
PID_MIN == 1

VARIABLES
  kproc,          \* struct proc *kproc
  processTable,   \* [proc, last_i, is_full]
  pcb,            \* the proc structures, by address
  of,             \* the openfile structures, by address
  dirref,         \* reference count of the directory vnode p_cwd designates
  ft_copy_lock,   \* holder of ft_copy_lock (NULL: free)
  thr,            \* the kernel threads: position and locals
  ret,            \* the last completed call of the boot/menu thread
  everDestroyed,  \* a proc_destroy has completed since boot
  ncopies,        \* proc_file_table_copy calls issued so far
  USE_SEMAPHORE_FOR_WAITPID,  \* the build's rendezvous variant
  t_proc,         \* t_proc of each thread: the process it is attached to
  asstate,        \* the address-space objects: "unused", "live", "destroyed"
  mmu             \* the address space the hardware mapping is set to

\* the threads' process links and the address spaces
vmvars == << t_proc, asstate, mmu >>

vars == << kproc, processTable, pcb, of, dirref, ft_copy_lock, thr, ret,
           everDestroyed, ncopies, USE_SEMAPHORE_FOR_WAITPID,
           t_proc, asstate, mmu >>

\* ------------------------------------------------------------- structures
\* memory of a proc structure that is not allocated
FreePCB ==
  [ alive |-> FALSE, p_pid |-> 0, p_status |-> 0, p_exited |-> 0,
    p_numthreads |-> 0, p_addrspace |-> NULL, p_cwd |-> NULL,
    parent_proc |-> NULL, p_sem |-> 0, p_cv |-> {}, p_cv_lock |-> NULL,
    ft_lock |-> NULL, fileTable |-> [fd \in FDS |-> NULL] ]

\* an openfile structure never opened
FreeOF == [ countRef |-> 0, vn_refcount |-> 0, nclose |-> 0 ]

IdleThread ==
  [ pc |-> "idle", proc |-> NULL, psrc |-> NULL, pdest |-> NULL, fd |-> 0,
    pid |-> 0, status |-> 0, as |-> NULL ]

NoCall == [ op |-> "none", arg |-> 0, val |-> 0 ]

Min(S) == CHOOSE x \in S : \A y \in S : x <= y

\* the process of the calling (boot/menu) thread
CurProc == kproc

\* ------------------------------------------------------------- process table
is_proc_table_full(tbl) == tbl.is_full

\* proc_search_pid whose range check is one identifier short
proc_search_pid_ShortRange(tbl, pid) ==
  IF pid < PID_MIN \/ pid > MAX_PROC - 1 THEN NULL ELSE tbl.proc[pid]

\* proc_search_pid(pid): the pointer returned
proc_search_pid(tbl, pid) ==
  IF pid < PID_MIN \/ pid > MAX_PROC THEN NULL ELSE tbl.proc[pid]

Wrap(i) == IF i > MAX_PROC THEN 1 ELSE i

\* ScanFrom for a loop without the test i != last_i
RECURSIVE ScanFromNoExit(_, _, _)
ScanFromNoExit(tbl, i, fuel) ==
  IF tbl.proc[i] = NULL THEN i
  ELSE IF fuel = 0 THEN -1
  ELSE ScanFromNoExit(tbl, Wrap(i + 1), fuel - 1)

\* The while loop of proc_init_waitpid: the index it assigns, 0 when it
\* leaves the loop at i = last_i, -1 when it never leaves the loop.
RECURSIVE ScanFrom(_, _, _)
ScanFrom(tbl, i, fuel) ==
  IF i = tbl.last_i THEN 0
  ELSE IF tbl.proc[i] = NULL THEN i
  ELSE IF fuel = 0 THEN -1
  ELSE ScanFrom(tbl, Wrap(i + 1), fuel - 1)

\* first index the scan examines
ScanStart(tbl) == Wrap(tbl.last_i + 1)

\* SemInitCount for a semaphore created already posted
SemInitCountPosted == 0 + 1

\* initial count of the semaphore sem_create(name, 0) makes
SemInitCount == 0

\* proc_init_waitpid(proc, name): the table and the proc afterwards
proc_init_waitpid(tbl, rec, p) ==
  LET i == ScanFrom(tbl, ScanStart(tbl), MAX_PROC)
  IN IF i > 0
       THEN [ tbl |-> [ tbl EXCEPT !.proc[i] = p, !.last_i = i ],
              rec |-> [ rec EXCEPT !.p_pid = i, !.p_status = 0,
                                   !.p_sem = SemInitCount, !.p_cv = {},
                                   !.p_cv_lock = NULL ],
              hang |-> FALSE ]
       ELSE [ tbl |-> [ tbl EXCEPT !.is_full = TRUE ],
              rec |-> [ rec EXCEPT !.p_pid = 0 ],
              hang |-> (i < 0) ]

\* proc_end_waitpid that leaves the slot as it is
proc_end_waitpid_KeepsSlot(tbl, rec) ==
  [ tbl EXCEPT !.is_full = FALSE ]

\* proc_end_waitpid(proc): the table afterwards
proc_end_waitpid(tbl, rec) ==
  [ tbl EXCEPT !.proc[rec.p_pid] = NULL, !.is_full = FALSE ]

\* kmalloc(sizeof(struct proc)): a free PCB, NULL when memory is exhausted.
\* Which free block the allocator returns is not determined by proc.c: the
\* block named after the slot the scan is about to assign is taken when it
\* is free, the least free block otherwise.
Kmalloc(pcbs, hint) ==
  IF hint \in PCB /\ ~pcbs[hint].alive
    THEN hint
    ELSE IF \E p \in PCB : ~pcbs[p].alive
           THEN Min({p \in PCB : ~pcbs[p].alive})
           ELSE NULL

\* proc_create(name): [tbl, pcb, val], val the proc returned (NULL: none)
proc_create(tbl, pcbs) ==
  LET p == Kmalloc(pcbs, ScanFrom(tbl, ScanStart(tbl), MAX_PROC))
  IN IF p = NULL
       THEN [ tbl |-> tbl, pcb |-> pcbs, val |-> NULL ]
       ELSE
         LET fresh == [ FreePCB EXCEPT !.alive = TRUE ]
             r == proc_init_waitpid(tbl, fresh, p)
         IN IF is_proc_table_full(r.tbl)
              THEN [ tbl |-> r.tbl, pcb |-> pcbs, val |-> NULL ]
              ELSE [ tbl |-> r.tbl,
                     pcb |-> [ pcbs EXCEPT ![p] = r.rec ],
                     val |-> p ]

\* the scan of the creation about to run leaves its loop
ScanTerminates(tbl) == ScanFrom(tbl, ScanStart(tbl), MAX_PROC) >= 0

\* ------------------------------------------------------------- file handles
\* ReleaseHandle with the close taken on every decrement
ReleaseHandleAlwaysCloses(ofs, h) ==
  [ ofs EXCEPT ![h].countRef = @ - 1,
               ![h].nclose = @ + 1,
               ![h].vn_refcount = @ - 1 ]

\* one pass of the loop body of proc_destroy on a handle (lines 323-333)
ReleaseHandle(ofs, h) ==
  IF ofs[h].countRef - 1 = 0
    THEN [ ofs EXCEPT ![h].countRef = 0,
                      ![h].nclose = @ + 1,
                      ![h].vn_refcount = @ - 1 ]
    ELSE [ ofs EXCEPT ![h].countRef = @ - 1 ]

RECURSIVE ReleaseFrom(_, _, _)
ReleaseFrom(ofs, ft, fd) ==
  IF fd >= OPEN_MAX THEN ofs
  ELSE ReleaseFrom(IF ft[fd] # NULL THEN ReleaseHandle(ofs, ft[fd]) ELSE ofs,
                   ft, fd + 1)

\* VOP_INCREF(of->vn); openfileIncrRefCount(of)
RetainHandle(ofs, h) ==
  [ ofs EXCEPT ![h].countRef = @ + 1, ![h].vn_refcount = @ + 1 ]

RECURSIVE RetainFrom(_, _, _)
RetainFrom(ofs, ft, fd) ==
  IF fd >= OPEN_MAX THEN ofs
  ELSE RetainFrom(IF ft[fd] # NULL THEN RetainHandle(ofs, ft[fd]) ELSE ofs,
                  ft, fd + 1)

\* what the copy loop stores in slot fd of the destination
CopiedSlot(srcft, dstft, fd) == srcft[fd]

\* number of descriptor slots of allocated procs that reference h
Refs(h) ==
  Cardinality({ x \in PCB \X FDS :
                  pcb[x[1]].alive /\ pcb[x[1]].fileTable[x[2]] = h })

\* ------------------------------------------------------------- directory vnode
\* VOP_INCREF that takes no reference
VOP_INCREF_None(n) == n

\* VOP_INCREF(curproc->p_cwd) on the count of the directory vnode
VOP_INCREF(n) == n + 1

\* VOP_DECREF(proc->p_cwd)
VOP_DECREF(n) == n - 1

\* ------------------------------------------------------------- initial state
Init ==
  /\ kproc = NULL
  /\ processTable = [ proc |-> [ i \in 0..MAX_PROC |-> NULL ],
                      last_i |-> 0, is_full |-> FALSE ]
  /\ pcb = [ p \in PCB |-> FreePCB ]
  /\ of = [ h \in OFS |-> FreeOF ]
  /\ dirref = 0
  /\ ft_copy_lock = NULL
  /\ thr = [ t \in THREADS |-> IdleThread ]
  /\ ret = NoCall
  /\ everDestroyed = FALSE
  /\ ncopies = 0
  /\ USE_SEMAPHORE_FOR_WAITPID \in BOOLEAN
  /\ t_proc = [ t \in THREADS |-> NULL ]
  /\ asstate = [ a \in AS |-> "unused" ]
  /\ mmu = NULL

Booted == kproc # NULL

\* no thread is inside a call
Quiet == \A t \in THREADS : thr[t].pc = "idle"

\* t is the thread that makes the next call: idle threads are
\* interchangeable, the one of least index is taken
IsCaller(t) ==
  /\ thr[t].pc = "idle"
  /\ \A u \in THREADS : u < t => thr[u].pc # "idle"

\* ------------------------------------------------------------- whole calls
\* proc_bootstrap()
Bootstrap ==
  /\ ~Booted
  /\ ScanTerminates(processTable)
  /\ LET c == proc_create(processTable, pcb)
     IN /\ c.val # NULL
        /\ kproc' = c.val
        /\ processTable' = [ c.tbl EXCEPT !.is_full = FALSE ]
        /\ pcb' = c.pcb
        /\ ret' = [ op |-> "boot", arg |-> 0, val |-> c.val ]
  /\ ft_copy_lock' = NULL
  /\ UNCHANGED << of, dirref, thr, everDestroyed, ncopies,
                  USE_SEMAPHORE_FOR_WAITPID, vmvars >>

\* proc_create_runprogram(name), called by the boot/menu thread
CreateRunprogram ==
  /\ Booted
  /\ ScanTerminates(processTable)
  /\ LET c == proc_create(processTable, pcb)
         cwd == c.pcb[CurProc].p_cwd
     IN /\ processTable' = c.tbl
        /\ IF c.val # NULL /\ cwd # NULL
             THEN /\ pcb' = [ c.pcb EXCEPT ![c.val].p_cwd = cwd ]
                  /\ dirref' = VOP_INCREF(dirref)
             ELSE /\ pcb' = c.pcb
                  /\ dirref' = dirref
        /\ ret' = [ op |-> "create", arg |-> 0, val |-> c.val ]
  /\ UNCHANGED << kproc, of, ft_copy_lock, thr, everDestroyed, ncopies,
                  USE_SEMAPHORE_FOR_WAITPID, vmvars >>

\* proc_search_pid(pid), called by the boot/menu thread; the call gets to
\* its return only if the KASSERT on the proc it found holds
SearchPid(pid) ==
  /\ Booted
  /\ LET p == proc_search_pid(processTable, pid)
     IN p # NULL => pcb[p].p_pid = pid
  /\ ret' = [ op |-> "search", arg |-> pid,
              val |-> proc_search_pid(processTable, pid) ]
  /\ UNCHANGED << kproc, processTable, pcb, of, dirref, ft_copy_lock, thr,
                  everDestroyed, ncopies, USE_SEMAPHORE_FOR_WAITPID, vmvars >>

\* The current (kernel) process gets its working directory (the boot code
\* sets the current directory of the kernel process, taking a reference).
Chdir ==
  /\ Booted /\ Quiet
  /\ pcb[CurProc].p_cwd = NULL
  /\ pcb' = [ pcb EXCEPT ![CurProc].p_cwd = 1 ]
  /\ dirref' = dirref + 1
  /\ ret' = [ op |-> "chdir", arg |-> 0, val |-> 0 ]
  /\ UNCHANGED << kproc, processTable, of, ft_copy_lock, thr, everDestroyed,
                  ncopies, USE_SEMAPHORE_FOR_WAITPID, vmvars >>

\* the KASSERTs of proc_destroy and proc_end_waitpid hold for p
CanDestroy(p) ==
  /\ p # NULL /\ p # kproc
  /\ pcb[p].alive
  /\ pcb[p].p_numthreads = 0
  /\ pcb[p].p_pid > 0 /\ pcb[p].p_pid <= MAX_PROC

\* state of the handles after the descriptor loop of proc_destroy(p)
DestroyHandles(ofs, rec) == ReleaseFrom(ofs, rec.fileTable, 0)

\* proc_destroy(proc): everything but the caller's own position
ProcDestroy(p) ==
  /\ CanDestroy(p)
  /\ dirref' = IF pcb[p].p_cwd # NULL THEN VOP_DECREF(dirref)
                                      ELSE dirref
  /\ processTable' = proc_end_waitpid(processTable, pcb[p])
  /\ of' = DestroyHandles(of, pcb[p])
  /\ pcb' = [ pcb EXCEPT ![p] = FreePCB ]
  /\ everDestroyed' = TRUE
  /\ UNCHANGED << kproc, ft_copy_lock, ncopies, USE_SEMAPHORE_FOR_WAITPID, vmvars >>

\* proc_destroy(proc), called by the boot/menu thread
Destroy(p) ==
  /\ Booted /\ Quiet
  /\ ProcDestroy(p)
  /\ ret' = [ op |-> "destroy", arg |-> 0, val |-> 0 ]
  /\ UNCHANGED thr

\* A descriptor of a user process p comes to reference a newly opened
\* handle (the open system call: the handle starts with one reference, on
\* an open vnode).
Open(p, fd) ==
  /\ Booted /\ Quiet
  /\ p # kproc
  /\ pcb[p].alive
  /\ pcb[p].fileTable[fd] = NULL
  /\ \E h \in OFS :
       /\ of[h] = FreeOF
       /\ \A g \in OFS : g < h => of[g] # FreeOF
       /\ of' = [ of EXCEPT ![h] = [ countRef |-> 1, vn_refcount |-> 1,
                                     nclose |-> 0 ] ]
       /\ pcb' = [ pcb EXCEPT ![p].fileTable[fd] = h ]
       /\ ret' = [ op |-> "open", arg |-> 0, val |-> 0 ]
  /\ UNCHANGED << kproc, processTable, dirref, ft_copy_lock, thr,
                  everDestroyed, ncopies, USE_SEMAPHORE_FOR_WAITPID, vmvars >>

\* the handles of a table stay below the cap after one more duplication
BelowCap(ft) ==
  \A fd \in FDS : ft[fd] # NULL => /\ of[ft[fd]].countRef < MaxRef
                                   /\ of[ft[fd]].vn_refcount < MaxRef

\* proc_file_table_copy(psrc, pdest), called by the boot/menu thread
FileTableCopy(psrc, pdest) ==
  /\ Booted /\ Quiet
  /\ psrc # pdest /\ psrc # kproc /\ pdest # kproc
  /\ pcb[psrc].alive /\ pcb[pdest].alive
  /\ BelowCap(pcb[psrc].fileTable)
  /\ pcb' = [ pcb EXCEPT ![pdest].fileTable =
                [ fd \in FDS |-> CopiedSlot(pcb[psrc].fileTable, @, fd) ] ]
  /\ of' = RetainFrom(of, pcb[psrc].fileTable, 0)
  /\ ret' = [ op |-> "copy", arg |-> pdest, val |-> 0 ]
  /\ UNCHANGED << kproc, processTable, dirref, ft_copy_lock, thr,
                  everDestroyed, ncopies, USE_SEMAPHORE_FOR_WAITPID, vmvars >>

\* ------------------------------------------------------------- parent links
\* ParentMatches that takes every linked process for a child
ParentMatchesAny(pcbs, p, pid) == pcbs[p].parent_proc # NULL

\* p->parent_proc != NULL && p->parent_proc->p_pid == pid
ParentMatches(pcbs, p, pid) ==
  /\ pcbs[p].parent_proc # NULL
  /\ pcbs[pcbs[p].parent_proc].p_pid = pid

\* the procs whose link the loop of proc_rm_parent_link(pid) clears
LinkedChildren(tbl, pcbs, pid) ==
  { q \in PCB : /\ \E i \in 1..MAX_PROC : tbl.proc[i] = q
                /\ ParentMatches(pcbs, q, pid) }

\* proc_rm_parent_link(pid): the proc structures afterwards
proc_rm_parent_link(tbl, pcbs, pid) ==
  [ q \in PCB |-> IF q \in LinkedChildren(tbl, pcbs, pid)
                    THEN [ pcbs[q] EXCEPT !.parent_proc = NULL ]
                    ELSE pcbs[q] ]

\* proc_rm_parent_link(pid), called by the boot/menu thread; the KASSERT
\* wants an identifier of the table's range
RmParentLink(pid) ==
  /\ Booted /\ Quiet
  /\ ~(pid < PID_MIN \/ pid > MAX_PROC)
  /\ pcb' = proc_rm_parent_link(processTable, pcb, pid)
  /\ ret' = [ op |-> "rmlink", arg |-> pid,
              val |-> Cardinality(LinkedChildren(processTable, pcb, pid)) ]
  /\ UNCHANGED << kproc, processTable, of, dirref, ft_copy_lock, thr,
                  everDestroyed, ncopies, USE_SEMAPHORE_FOR_WAITPID, vmvars >>

\* A process c is linked to its parent p (the fork system call sets
\* parent_proc of the child it created).
SetParent(c, p) ==
  /\ Booted /\ Quiet
  /\ c # p /\ c # kproc
  /\ pcb[c].alive /\ pcb[p].alive
  /\ pcb[c].parent_proc = NULL
  /\ pcb' = [ pcb EXCEPT ![c].parent_proc = p ]
  /\ ret' = [ op |-> "setparent", arg |-> 0, val |-> 0 ]
  /\ UNCHANGED << kproc, processTable, of, dirref, ft_copy_lock, thr,
                  everDestroyed, ncopies, USE_SEMAPHORE_FOR_WAITPID, vmvars >>

\* the caller of proc_destroy(p) has the only reference to p: no process
\* keeps p as its parent
OnlyReference(p) == \A q \in PCB : ~(pcb[q].alive /\ pcb[q].parent_proc = p)

\* ------------------------------------------------------------- wait / exit
\* positions of a thread inside proc_wait before the rendezvous let it pass
WaitBlockedPcs == { "wait", "w_cvwait", "w_sleep" }
\* positions inside proc_wait after the rendezvous let it pass
WaitPassedPcs == { "w_woken", "w_unlock", "w_collect" }
\* positions of an exiting thread from its call of proc_signal_end on
ExitPcs == { "signal", "sig_cv", "sig_unlock", "zombie" }
\* positions of an exiting thread after its V or cv_signal
SignalledPcs == { "sig_unlock", "zombie" }

\* exit status the waiter takes from the proc (return_status = p_status)
ReturnStatus(rec) == rec.p_status

\* The thread of process p exits with status s: the exit system call
\* records the status and goes on to proc_signal_end(p).
ExitCall(t, p, s) ==
  /\ Booted
  /\ IsCaller(t)
  /\ p # kproc /\ pcb[p].alive /\ pcb[p].p_exited = 0
  /\ pcb' = [ pcb EXCEPT ![p].p_status = s, ![p].p_exited = 1 ]
  /\ thr' = [ thr EXCEPT ![t] = [ IdleThread EXCEPT !.pc = "signal",
                                   !.proc = p, !.status = s ] ]
  /\ UNCHANGED << kproc, processTable, of, dirref, ft_copy_lock, ret,
                  everDestroyed, ncopies, USE_SEMAPHORE_FOR_WAITPID, vmvars >>

\* proc_signal_end, semaphore build: V(proc->p_sem); the thread then exits
SignalSem(t) ==
  /\ USE_SEMAPHORE_FOR_WAITPID
  /\ thr[t].pc = "signal"
  /\ pcb' = [ pcb EXCEPT ![thr[t].proc].p_sem = @ + 1 ]
  /\ thr' = [ thr EXCEPT ![t].pc = "zombie" ]
  /\ UNCHANGED << kproc, processTable, of, dirref, ft_copy_lock, ret,
                  everDestroyed, ncopies, USE_SEMAPHORE_FOR_WAITPID, vmvars >>

\* proc_signal_end, condition-variable build: lock_acquire(p_cv_lock)
SignalLock(t) ==
  /\ ~USE_SEMAPHORE_FOR_WAITPID
  /\ thr[t].pc = "signal"
  /\ pcb[thr[t].proc].p_cv_lock = NULL
  /\ pcb' = [ pcb EXCEPT ![thr[t].proc].p_cv_lock = t ]
  /\ thr' = [ thr EXCEPT ![t].pc = "sig_cv" ]
  /\ UNCHANGED << kproc, processTable, of, dirref, ft_copy_lock, ret,
                  everDestroyed, ncopies, USE_SEMAPHORE_FOR_WAITPID, vmvars >>

\* cv_signal(p_cv): wakes one sleeper; nothing is kept when none sleeps
SignalCv(t) ==
  /\ thr[t].pc = "sig_cv"
  /\ LET p == thr[t].proc
     IN IF pcb[p].p_cv = {}
          THEN /\ thr' = [ thr EXCEPT ![t].pc = "sig_unlock" ]
               /\ pcb' = pcb
          ELSE \E w \in pcb[p].p_cv :
                 /\ thr' = [ thr EXCEPT ![t].pc = "sig_unlock",
                                        ![w].pc = "w_woken" ]
                 /\ pcb' = [ pcb EXCEPT ![p].p_cv = @ \ {w} ]
  /\ UNCHANGED << kproc, processTable, of, dirref, ft_copy_lock, ret,
                  everDestroyed, ncopies, USE_SEMAPHORE_FOR_WAITPID, vmvars >>

\* lock_release(p_cv_lock); the thread then exits
SignalUnlock(t) ==
  /\ thr[t].pc = "sig_unlock"
  /\ pcb' = [ pcb EXCEPT ![thr[t].proc].p_cv_lock = NULL ]
  /\ thr' = [ thr EXCEPT ![t].pc = "zombie" ]
  /\ UNCHANGED << kproc, processTable, of, dirref, ft_copy_lock, ret,
                  everDestroyed, ncopies, USE_SEMAPHORE_FOR_WAITPID, vmvars >>

\* A thread resolves pid and calls proc_wait on the proc; it is the only
\* waiter of that proc.
WaitCall(t, pid) ==
  /\ Booted
  /\ IsCaller(t)
  /\ LET p == proc_search_pid(processTable, pid)
     IN /\ p # NULL /\ p # kproc
        /\ \A u \in THREADS :
             ~(thr[u].proc = p /\ thr[u].pc \in
                 WaitBlockedPcs \cup WaitPassedPcs)
        /\ thr' = [ thr EXCEPT ![t] = [ IdleThread EXCEPT !.pc = "wait",
                                         !.proc = p, !.pid = pid ] ]
  /\ UNCHANGED << kproc, processTable, pcb, of, dirref, ft_copy_lock, ret,
                  everDestroyed, ncopies, USE_SEMAPHORE_FOR_WAITPID, vmvars >>

\* the semaphore lets a P through
SemAvailable(rec) == rec.p_sem > 0

\* proc_wait, semaphore build: P(proc->p_sem)
WaitSem(t) ==
  /\ USE_SEMAPHORE_FOR_WAITPID
  /\ thr[t].pc = "wait"
  /\ SemAvailable(pcb[thr[t].proc])
  /\ pcb' = [ pcb EXCEPT ![thr[t].proc].p_sem = @ - 1 ]
  /\ thr' = [ thr EXCEPT ![t].pc = "w_collect" ]
  /\ UNCHANGED << kproc, processTable, of, dirref, ft_copy_lock, ret,
                  everDestroyed, ncopies, USE_SEMAPHORE_FOR_WAITPID, vmvars >>

\* proc_wait, condition-variable build: lock_acquire(p_cv_lock)
WaitLock(t) ==
  /\ ~USE_SEMAPHORE_FOR_WAITPID
  /\ thr[t].pc = "wait"
  /\ pcb[thr[t].proc].p_cv_lock = NULL
  /\ pcb' = [ pcb EXCEPT ![thr[t].proc].p_cv_lock = t ]
  /\ thr' = [ thr EXCEPT ![t].pc = "w_cvwait" ]
  /\ UNCHANGED << kproc, processTable, of, dirref, ft_copy_lock, ret,
                  everDestroyed, ncopies, USE_SEMAPHORE_FOR_WAITPID, vmvars >>

\* cv_wait: releases the lock and sleeps on the condition variable
WaitCv(t) ==
  /\ thr[t].pc = "w_cvwait"
  /\ pcb' = [ pcb EXCEPT ![thr[t].proc].p_cv_lock = NULL,
                         ![thr[t].proc].p_cv = @ \cup {t} ]
  /\ thr' = [ thr EXCEPT ![t].pc = "w_sleep" ]
  /\ UNCHANGED << kproc, processTable, of, dirref, ft_copy_lock, ret,
                  everDestroyed, ncopies, USE_SEMAPHORE_FOR_WAITPID, vmvars >>

\* cv_wait, woken: takes the lock again
WaitRelock(t) ==
  /\ thr[t].pc = "w_woken"
  /\ pcb[thr[t].proc].p_cv_lock = NULL
  /\ pcb' = [ pcb EXCEPT ![thr[t].proc].p_cv_lock = t ]
  /\ thr' = [ thr EXCEPT ![t].pc = "w_unlock" ]
  /\ UNCHANGED << kproc, processTable, of, dirref, ft_copy_lock, ret,
                  everDestroyed, ncopies, USE_SEMAPHORE_FOR_WAITPID, vmvars >>

\* lock_release(p_cv_lock)
WaitUnlock(t) ==
  /\ thr[t].pc = "w_unlock"
  /\ pcb' = [ pcb EXCEPT ![thr[t].proc].p_cv_lock = NULL ]
  /\ thr' = [ thr EXCEPT ![t].pc = "w_collect" ]
  /\ UNCHANGED << kproc, processTable, of, dirref, ft_copy_lock, ret,
                  everDestroyed, ncopies, USE_SEMAPHORE_FOR_WAITPID, vmvars >>

\* return_status = proc->p_status; proc_destroy(proc); return return_status.
\* The caller gets the status; the exited thread of the proc is gone with it.
WaitCollect(t) ==
  /\ thr[t].pc = "w_collect"
  /\ ProcDestroy(thr[t].proc)
  /\ thr' = [ u \in THREADS |->
               IF u = t \/ (thr[u].pc = "zombie" /\ thr[u].proc = thr[t].proc)
                 THEN IdleThread
                 ELSE thr[u] ]
  /\ ret' = [ op |-> "wait", arg |-> thr[t].pid,
              val |-> ReturnStatus(pcb[thr[t].proc]) ]

SignalStep(t) ==
  \/ SignalSem(t)
  \/ SignalLock(t)
  \/ SignalCv(t)
  \/ SignalUnlock(t)

WaitStep(t) ==
  \/ WaitSem(t)
  \/ WaitLock(t)
  \/ WaitCv(t)
  \/ WaitRelock(t)
  \/ WaitUnlock(t)
  \/ WaitCollect(t)

\* ------------------------------------------------------------- duplication steps
\* positions of a thread inside proc_file_table_copy
CopyPcs == { "cp_lock_copy", "cp_lock_src", "cp_lock_dst", "cp_loop",
             "cp_unlock_dst", "cp_unlock_src", "cp_unlock_copy" }

\* both procs of the duplication of thread t are allocated
CopyProcsAlive(t) == pcb[thr[t].psrc].alive /\ pcb[thr[t].pdest].alive

\* A thread calls proc_file_table_copy(psrc, pdest) on two user processes.
CopyCall(t, psrc, pdest) ==
  /\ Booted
  /\ IsCaller(t)
  /\ ncopies < MaxCopies
  /\ psrc # pdest /\ psrc # kproc /\ pdest # kproc
  /\ pcb[psrc].alive /\ pcb[pdest].alive
  /\ thr' = [ thr EXCEPT ![t] = [ IdleThread EXCEPT !.pc = "cp_lock_copy",
                                   !.psrc = psrc, !.pdest = pdest ] ]
  /\ ncopies' = ncopies + 1
  /\ UNCHANGED << kproc, processTable, pcb, of, dirref, ft_copy_lock, ret,
                  everDestroyed, USE_SEMAPHORE_FOR_WAITPID, vmvars >>

\* AcquireCopyLock that goes on without taking the lock
AcquireCopyLockSkipped(t) == ft_copy_lock' = ft_copy_lock

\* lock_acquire(ft_copy_lock)
AcquireCopyLock(t) == ft_copy_lock = NULL /\ ft_copy_lock' = t

CopyLockCopy(t) ==
  /\ thr[t].pc = "cp_lock_copy"
  /\ CopyProcsAlive(t)
  /\ AcquireCopyLock(t)
  /\ thr' = [ thr EXCEPT ![t].pc = "cp_lock_src" ]
  /\ UNCHANGED << kproc, processTable, pcb, of, dirref, ret, everDestroyed,
                  ncopies, USE_SEMAPHORE_FOR_WAITPID, vmvars >>

\* lock_acquire(psrc->ft_lock)
CopyLockSrc(t) ==
  /\ thr[t].pc = "cp_lock_src"
  /\ CopyProcsAlive(t)
  /\ pcb[thr[t].psrc].ft_lock = NULL
  /\ pcb' = [ pcb EXCEPT ![thr[t].psrc].ft_lock = t ]
  /\ thr' = [ thr EXCEPT ![t].pc = "cp_lock_dst" ]
  /\ UNCHANGED << kproc, processTable, of, dirref, ft_copy_lock, ret,
                  everDestroyed, ncopies, USE_SEMAPHORE_FOR_WAITPID, vmvars >>

\* lock_acquire(pdest->ft_lock)
CopyLockDst(t) ==
  /\ thr[t].pc = "cp_lock_dst"
  /\ CopyProcsAlive(t)
  /\ pcb[thr[t].pdest].ft_lock = NULL
  /\ pcb' = [ pcb EXCEPT ![thr[t].pdest].ft_lock = t ]
  /\ thr' = [ thr EXCEPT ![t].pc = "cp_loop", ![t].fd = 0 ]
  /\ UNCHANGED << kproc, processTable, of, dirref, ft_copy_lock, ret,
                  everDestroyed, ncopies, USE_SEMAPHORE_FOR_WAITPID, vmvars >>

\* one pass of the copy loop
CopyLoop(t) ==
  /\ thr[t].pc = "cp_loop"
  /\ CopyProcsAlive(t)
  /\ LET fd == thr[t].fd
         h == CopiedSlot(pcb[thr[t].psrc].fileTable,
                         pcb[thr[t].pdest].fileTable, fd)
     IN /\ pcb' = [ pcb EXCEPT ![thr[t].pdest].fileTable[fd] = h ]
        /\ of' = IF h # NULL THEN RetainHandle(of, h) ELSE of
        /\ thr' = IF fd + 1 < OPEN_MAX
                    THEN [ thr EXCEPT ![t].fd = fd + 1 ]
                    ELSE [ thr EXCEPT ![t].pc = "cp_unlock_dst", ![t].fd = 0 ]
  /\ UNCHANGED << kproc, processTable, dirref, ft_copy_lock, ret,
                  everDestroyed, ncopies, USE_SEMAPHORE_FOR_WAITPID, vmvars >>

\* lock_release(pdest->ft_lock)
CopyUnlockDst(t) ==
  /\ thr[t].pc = "cp_unlock_dst"
  /\ CopyProcsAlive(t)
  /\ pcb' = [ pcb EXCEPT ![thr[t].pdest].ft_lock = NULL ]
  /\ thr' = [ thr EXCEPT ![t].pc = "cp_unlock_src" ]
  /\ UNCHANGED << kproc, processTable, of, dirref, ft_copy_lock, ret,
                  everDestroyed, ncopies, USE_SEMAPHORE_FOR_WAITPID, vmvars >>

\* lock_release(psrc->ft_lock)
CopyUnlockSrc(t) ==
  /\ thr[t].pc = "cp_unlock_src"
  /\ CopyProcsAlive(t)
  /\ pcb' = [ pcb EXCEPT ![thr[t].psrc].ft_lock = NULL ]
  /\ thr' = [ thr EXCEPT ![t].pc = "cp_unlock_copy" ]
  /\ UNCHANGED << kproc, processTable, of, dirref, ft_copy_lock, ret,
                  everDestroyed, ncopies, USE_SEMAPHORE_FOR_WAITPID, vmvars >>

\* lock_release(ft_copy_lock); the call returns
CopyUnlockCopy(t) ==
  /\ thr[t].pc = "cp_unlock_copy"
  /\ ft_copy_lock' = NULL
  /\ thr' = [ thr EXCEPT ![t] = IdleThread ]
  /\ UNCHANGED << kproc, processTable, pcb, of, dirref, ret, everDestroyed,
                  ncopies, USE_SEMAPHORE_FOR_WAITPID, vmvars >>

\* The duplication goes on in a proc structure that proc_destroy has
\* freed: from there on the thread's behaviour is undefined.
CopyFault(t) ==
  /\ thr[t].pc \in CopyPcs \ { "cp_unlock_copy" }
  /\ ~CopyProcsAlive(t)
  /\ thr' = [ thr EXCEPT ![t].pc = "fault" ]
  /\ UNCHANGED << kproc, processTable, pcb, of, dirref, ft_copy_lock, ret,
                  everDestroyed, ncopies, USE_SEMAPHORE_FOR_WAITPID, vmvars >>

CopyStep(t) ==
  \/ CopyLockCopy(t)
  \/ CopyLockSrc(t)
  \/ CopyLockDst(t)
  \/ CopyLoop(t)
  \/ CopyUnlockDst(t)
  \/ CopyUnlockSrc(t)
  \/ CopyUnlockCopy(t)

\* ------------------------------------------------------------- destroy steps
DestroyPcs == { "d_begin", "d_fd", "d_free" }

\* A thread calls proc_destroy(p); no other thread is destroying p.  The
\* calls stop once a destroy has completed, which keeps the runs finite.
DestroyCall(t, p) ==
  /\ Booted
  /\ IsCaller(t)
  /\ ~everDestroyed
  /\ CanDestroy(p)
  /\ \A u \in THREADS : ~(thr[u].pc \in DestroyPcs /\ thr[u].proc = p)
  /\ thr' = [ thr EXCEPT ![t] = [ IdleThread EXCEPT !.pc = "d_begin",
                                   !.proc = p ] ]
  /\ UNCHANGED << kproc, processTable, pcb, of, dirref, ft_copy_lock, ret,
                  everDestroyed, ncopies, USE_SEMAPHORE_FOR_WAITPID, vmvars >>

\* proc_destroy up to proc_end_waitpid (lines 252-319)
DestroyBegin(t) ==
  /\ thr[t].pc = "d_begin"
  /\ LET p == thr[t].proc
     IN /\ dirref' = IF pcb[p].p_cwd # NULL THEN VOP_DECREF(dirref)
                                      ELSE dirref
        /\ processTable' = proc_end_waitpid(processTable, pcb[p])
        /\ pcb' = [ pcb EXCEPT ![p].p_cwd = NULL, ![p].p_addrspace = NULL ]
  /\ thr' = [ thr EXCEPT ![t].pc = "d_fd", ![t].fd = 0 ]
  /\ UNCHANGED << kproc, of, ft_copy_lock, ret, everDestroyed, ncopies,
                  USE_SEMAPHORE_FOR_WAITPID, vmvars >>

\* one pass of the descriptor loop (lines 320-337)
DestroyFd(t) ==
  /\ thr[t].pc = "d_fd"
  /\ LET p == thr[t].proc
         fd == thr[t].fd
         h == pcb[p].fileTable[fd]
     IN /\ of' = IF h # NULL THEN ReleaseHandle(of, h) ELSE of
        /\ pcb' = [ pcb EXCEPT ![p].fileTable[fd] = NULL ]
        /\ thr' = IF fd + 1 < OPEN_MAX
                    THEN [ thr EXCEPT ![t].fd = fd + 1 ]
                    ELSE [ thr EXCEPT ![t].pc = "d_free", ![t].fd = 0 ]
  /\ UNCHANGED << kproc, processTable, dirref, ft_copy_lock, ret,
                  everDestroyed, ncopies, USE_SEMAPHORE_FOR_WAITPID, vmvars >>

\* lock_destroy(ft_lock); kfree(p_name); kfree(proc); the call returns
DestroyFree(t) ==
  /\ thr[t].pc = "d_free"
  /\ pcb' = [ pcb EXCEPT ![thr[t].proc] = FreePCB ]
  /\ thr' = [ thr EXCEPT ![t] = IdleThread ]
  /\ everDestroyed' = TRUE
  /\ UNCHANGED << kproc, processTable, of, dirref, ft_copy_lock, ret,
                  ncopies, USE_SEMAPHORE_FOR_WAITPID, vmvars >>

DestroyStep(t) ==
  \/ DestroyBegin(t)
  \/ DestroyFd(t)
  \/ DestroyFree(t)

\* ------------------------------------------------------------- threads
\* positions of a call of proc_addthread or proc_remthread on thread t
ThreadCallPcs == { "at_inc", "at_link", "dt_dec", "dt_link" }

\* a call of proc_addthread or proc_remthread on process p is in progress
ThreadCallOn(p) ==
  \E u \in THREADS : thr[u].pc \in ThreadCallPcs /\ thr[u].proc = p

\* AttachedCount that leaves the count as it is
AttachedCountSame(n) == n

\* proc->p_numthreads++
AttachedCount(n) == n + 1

\* proc->p_numthreads--
DetachedCount(n) == n - 1

\* proc_addthread(proc, t) is called: KASSERT(t->t_proc == NULL)
AttachCall(t, p) ==
  /\ Booted
  /\ thr[t].pc = "idle"
  /\ pcb[p].alive
  /\ t_proc[t] = NULL
  /\ thr' = [ thr EXCEPT ![t] = [ IdleThread EXCEPT !.pc = "at_inc",
                                   !.proc = p ] ]
  /\ UNCHANGED << kproc, processTable, pcb, of, dirref, ft_copy_lock, ret,
                  everDestroyed, ncopies, USE_SEMAPHORE_FOR_WAITPID, vmvars >>

\* spinlock_acquire(&proc->p_lock); proc->p_numthreads++; spinlock_release
AttachCount(t) ==
  /\ thr[t].pc = "at_inc"
  /\ pcb[thr[t].proc].alive
  /\ pcb' = [ pcb EXCEPT ![thr[t].proc].p_numthreads = AttachedCount(@) ]
  /\ thr' = [ thr EXCEPT ![t].pc = "at_link" ]
  /\ UNCHANGED << kproc, processTable, of, dirref, ft_copy_lock, ret,
                  everDestroyed, ncopies, USE_SEMAPHORE_FOR_WAITPID, vmvars >>

\* spl = splhigh(); t->t_proc = proc; splx(spl); return 0
AttachLink(t) ==
  /\ thr[t].pc = "at_link"
  /\ t_proc' = [ t_proc EXCEPT ![t] = thr[t].proc ]
  /\ thr' = [ thr EXCEPT ![t] = IdleThread ]
  /\ UNCHANGED << kproc, processTable, pcb, of, dirref, ft_copy_lock, ret,
                  everDestroyed, ncopies, USE_SEMAPHORE_FOR_WAITPID,
                  asstate, mmu >>

\* proc_remthread(t) is called: proc = t->t_proc; KASSERT(proc != NULL)
DetachCall(t) ==
  /\ Booted
  /\ thr[t].pc = "idle"
  /\ t_proc[t] # NULL
  /\ thr' = [ thr EXCEPT ![t] = [ IdleThread EXCEPT !.pc = "dt_dec",
                                   !.proc = t_proc[t] ] ]
  /\ UNCHANGED << kproc, processTable, pcb, of, dirref, ft_copy_lock, ret,
                  everDestroyed, ncopies, USE_SEMAPHORE_FOR_WAITPID, vmvars >>

\* spinlock_acquire; KASSERT(proc->p_numthreads > 0); proc->p_numthreads--;
\* spinlock_release
DetachCount(t) ==
  /\ thr[t].pc = "dt_dec"
  /\ pcb[thr[t].proc].alive
  /\ pcb[thr[t].proc].p_numthreads > 0
  /\ pcb' = [ pcb EXCEPT ![thr[t].proc].p_numthreads = DetachedCount(@) ]
  /\ thr' = [ thr EXCEPT ![t].pc = "dt_link" ]
  /\ UNCHANGED << kproc, processTable, of, dirref, ft_copy_lock, ret,
                  everDestroyed, ncopies, USE_SEMAPHORE_FOR_WAITPID, vmvars >>

\* spl = splhigh(); t->t_proc = NULL; splx(spl)
DetachLink(t) ==
  /\ thr[t].pc = "dt_link"
  /\ t_proc' = [ t_proc EXCEPT ![t] = NULL ]
  /\ thr' = [ thr EXCEPT ![t] = IdleThread ]
  /\ UNCHANGED << kproc, processTable, pcb, of, dirref, ft_copy_lock, ret,
                  everDestroyed, ncopies, USE_SEMAPHORE_FOR_WAITPID,
                  asstate, mmu >>

ThreadStep(t) ==
  \/ AttachCount(t)
  \/ AttachLink(t)
  \/ DetachCount(t)
  \/ DetachLink(t)

\* ------------------------------------------------------------- address spaces
\* proc_setas(newas) with proc the current process: the proc structures
\* afterwards and the address space returned
proc_setas(pcbs, proc, newas) ==
  [ pcb |-> [ pcbs EXCEPT ![proc].p_addrspace = newas ],
    val |-> pcbs[proc].p_addrspace ]

\* proc_getas() with proc the current process
proc_getas(pcbs, proc) == IF proc = NULL THEN NULL ELSE pcbs[proc].p_addrspace

\* A thread of a user process that has no address space yet loads a
\* program: it creates an address space, installs it with proc_setas and
\* activates it.
LoadAs(t, a) ==
  /\ Booted
  /\ thr[t].pc = "idle"
  /\ t_proc[t] # NULL /\ t_proc[t] # kproc
  /\ pcb[t_proc[t]].alive
  /\ proc_getas(pcb, t_proc[t]) = NULL
  /\ asstate[a] = "unused"
  /\ \A b \in AS : b < a => asstate[b] # "unused"
  /\ asstate' = [ asstate EXCEPT ![a] = "live" ]
  /\ pcb' = proc_setas(pcb, t_proc[t], a).pcb
  /\ mmu' = a
  /\ UNCHANGED << kproc, processTable, of, dirref, ft_copy_lock, thr, ret,
                  everDestroyed, ncopies, USE_SEMAPHORE_FOR_WAITPID, t_proc >>

\* The timer interrupt switches to thread t: as_activate() maps the
\* address space of its process, if it has one.
TimerActivate(t) ==
  /\ Booted
  /\ thr[t].pc # "panic"
  /\ t_proc[t] # NULL
  /\ pcb[t_proc[t]].alive
  /\ proc_getas(pcb, t_proc[t]) # NULL
  /\ mmu # proc_getas(pcb, t_proc[t])
  /\ mmu' = proc_getas(pcb, t_proc[t])
  /\ UNCHANGED << kproc, processTable, pcb, of, dirref, ft_copy_lock, thr,
                  ret, everDestroyed, ncopies, USE_SEMAPHORE_FOR_WAITPID,
                  t_proc, asstate >>

\* ------------------------------------------------------------- destroy, VM part
\* positions of proc_destroy from its entry to the KASSERT on p_numthreads
DestroyVmPcs == { "d_cwd", "d_swap", "d_deact", "d_asdestroy", "d_assert" }

\* some thread is inside proc_destroy(p)
BeingDestroyed(p) ==
  \E u \in THREADS :
    thr[u].pc \in DestroyVmPcs \cup DestroyPcs /\ thr[u].proc = p

\* AfterSwap that goes to as_destroy at once
AfterSwapNoDeactivate(current) == "d_asdestroy"

\* where proc_destroy goes on once the pointer is taken out of the proc
AfterSwap(current) == IF current THEN "d_deact" ELSE "d_asdestroy"

\* A thread calls proc_destroy(p) on a registered proc: the KASSERTs at
\* its entry; no other thread is destroying p.
DestroyVmCall(t, p) ==
  /\ Booted
  /\ thr[t].pc = "idle"
  /\ p # NULL /\ p # kproc
  /\ pcb[p].alive
  /\ pcb[p].p_pid > 0 /\ pcb[p].p_pid <= MAX_PROC
  /\ ~BeingDestroyed(p)
  /\ thr' = [ thr EXCEPT ![t] = [ IdleThread EXCEPT !.pc = "d_cwd",
                                   !.proc = p ] ]
  /\ UNCHANGED << kproc, processTable, pcb, of, dirref, ft_copy_lock, ret,
                  everDestroyed, ncopies, USE_SEMAPHORE_FOR_WAITPID, vmvars >>

\* the VFS fields (lines 262-265) and the test of proc->p_addrspace
DestroyCwd(t) ==
  /\ thr[t].pc = "d_cwd"
  /\ LET p == thr[t].proc
     IN /\ dirref' = IF pcb[p].p_cwd # NULL THEN VOP_DECREF(dirref)
                                              ELSE dirref
        /\ pcb' = [ pcb EXCEPT ![p].p_cwd = NULL ]
        /\ thr' = [ thr EXCEPT ![t].pc =
                      IF pcb[p].p_addrspace # NULL THEN "d_swap"
                                                   ELSE "d_assert" ]
  /\ UNCHANGED << kproc, processTable, of, ft_copy_lock, ret, everDestroyed,
                  ncopies, USE_SEMAPHORE_FOR_WAITPID, vmvars >>

\* as = proc_setas(NULL) when proc is the current process, as =
\* proc->p_addrspace; proc->p_addrspace = NULL otherwise
DestroySwap(t) ==
  /\ thr[t].pc = "d_swap"
  /\ LET p == thr[t].proc
         current == (p = t_proc[t])
         r == proc_setas(pcb, IF current THEN t_proc[t] ELSE p, NULL)
     IN /\ pcb' = r.pcb
        /\ thr' = [ thr EXCEPT ![t].as = r.val, ![t].pc = AfterSwap(current) ]
  /\ UNCHANGED << kproc, processTable, of, dirref, ft_copy_lock, ret,
                  everDestroyed, ncopies, USE_SEMAPHORE_FOR_WAITPID, vmvars >>

\* as_deactivate()
DestroyDeactivate(t) ==
  /\ thr[t].pc = "d_deact"
  /\ mmu' = NULL
  /\ thr' = [ thr EXCEPT ![t].pc = "d_asdestroy" ]
  /\ UNCHANGED << kproc, processTable, pcb, of, dirref, ft_copy_lock, ret,
                  everDestroyed, ncopies, USE_SEMAPHORE_FOR_WAITPID,
                  t_proc, asstate >>

\* as_destroy(as)
DestroyAs(t) ==
  /\ thr[t].pc = "d_asdestroy"
  /\ asstate' = [ asstate EXCEPT ![thr[t].as] = "destroyed" ]
  /\ thr' = [ thr EXCEPT ![t].pc = "d_assert" ]
  /\ UNCHANGED << kproc, processTable, pcb, of, dirref, ft_copy_lock, ret,
                  everDestroyed, ncopies, USE_SEMAPHORE_FOR_WAITPID,
                  t_proc, mmu >>

\* the kernel has panicked: no thread runs any more
Panicked == [ IdleThread EXCEPT !.pc = "panic" ]

KernelPanicked == \E u \in THREADS : thr[u] = Panicked

\* KASSERT(proc->p_numthreads == 0): proc_destroy goes on to
\* proc_end_waitpid when it holds; when it fails the kernel panics, which
\* stops every thread
DestroyAssert(t) ==
  /\ thr[t].pc = "d_assert"
  /\ thr' = IF pcb[thr[t].proc].p_numthreads = 0
              THEN [ thr EXCEPT ![t].pc = "d_begin" ]
              ELSE [ u \in THREADS |-> Panicked ]
  /\ UNCHANGED << kproc, processTable, pcb, of, dirref, ft_copy_lock, ret,
                  everDestroyed, ncopies, USE_SEMAPHORE_FOR_WAITPID, vmvars >>

DestroyVmStep(t) ==
  \/ DestroyCwd(t)
  \/ DestroySwap(t)
  \/ DestroyDeactivate(t)
  \/ DestroyAs(t)
  \/ DestroyAssert(t)

\* ------------------------------------------------------------- create steps
\* positions of a thread inside proc_create
CreatePcs == { "c_register", "c_check" }

\* some thread is inside proc_create with p as its new proc
BeingCreated(p) ==
  \E u \in THREADS : thr[u].pc \in CreatePcs /\ thr[u].proc = p

\* A thread calls proc_create_runprogram: proc_create up to the call of
\* proc_init_waitpid (kmalloc and the initialisation of the fields).  A
\* failed kmalloc returns NULL at once.
CreateCall(t) ==
  /\ Booted
  /\ IsCaller(t)
  /\ LET p == Kmalloc(pcb, ScanFrom(processTable, ScanStart(processTable),
                                    MAX_PROC))
     IN IF p = NULL
          THEN /\ ret' = [ op |-> "tcreate", arg |-> 0, val |-> NULL ]
               /\ UNCHANGED << pcb, thr >>
          ELSE /\ pcb' = [ pcb EXCEPT ![p] = [ FreePCB EXCEPT !.alive = TRUE ] ]
               /\ thr' = [ thr EXCEPT ![t] = [ IdleThread EXCEPT
                              !.pc = "c_register", !.proc = p ] ]
               /\ ret' = ret
  /\ UNCHANGED << kproc, processTable, of, dirref, ft_copy_lock,
                  everDestroyed, ncopies, USE_SEMAPHORE_FOR_WAITPID, vmvars >>

\* proc_init_waitpid(proc, name); the thread keeps the identifier its own
\* registration assigned (0: none)
CreateRegister(t) ==
  /\ thr[t].pc = "c_register"
  /\ ScanTerminates(processTable)
  /\ LET p == thr[t].proc
         r == proc_init_waitpid(processTable, pcb[p], p)
     IN /\ processTable' = r.tbl
        /\ pcb' = [ pcb EXCEPT ![p] = r.rec ]
        /\ thr' = [ thr EXCEPT ![t].pc = "c_check", ![t].pid = r.rec.p_pid ]
  /\ UNCHANGED << kproc, of, dirref, ft_copy_lock, ret, everDestroyed,
                  ncopies, USE_SEMAPHORE_FOR_WAITPID, vmvars >>

\* if (is_proc_table_full()) { ... kfree(proc); return NULL; } return proc;
\* then the rest of proc_create_runprogram on what proc_create returned
CreateCheck(t) ==
  /\ thr[t].pc = "c_check"
  /\ LET p == thr[t].proc
         cwd == pcb[CurProc].p_cwd
     IN IF is_proc_table_full(processTable)
          THEN /\ pcb' = [ pcb EXCEPT ![p] = FreePCB ]
               /\ dirref' = dirref
               /\ ret' = [ op |-> "tcreate", arg |-> thr[t].pid, val |-> NULL ]
          ELSE /\ pcb' = [ pcb EXCEPT
                             ![p].fileTable = [ fd \in FDS |-> NULL ],
                             ![p].p_addrspace = NULL,
                             ![p].p_cwd = cwd ]
               /\ dirref' = IF cwd # NULL THEN VOP_INCREF(dirref) ELSE dirref
               /\ ret' = [ op |-> "tcreate", arg |-> thr[t].pid, val |-> p ]
  /\ thr' = [ thr EXCEPT ![t] = IdleThread ]
  /\ UNCHANGED << kproc, processTable, of, ft_copy_lock, everDestroyed,
                  ncopies, USE_SEMAPHORE_FOR_WAITPID, vmvars >>

CreateStep(t) ==
  \/ CreateRegister(t)
  \/ CreateCheck(t)

\* ------------------------------------------------------------- specifications
\* the process table under whole calls of one thread
Next ==
  \/ Bootstrap
  \/ CreateRunprogram
  \/ \E p \in PCB : Destroy(p)
  \/ \E pid \in PIDARGS : SearchPid(pid)

Spec == Init /\ [][Next]_vars

\* the same with descriptors opened and file tables duplicated
NextFiles ==
  \/ Bootstrap
  \/ CreateRunprogram
  \/ \E p \in PCB : Destroy(p)
  \/ \E p \in PCB, fd \in FDS : Open(p, fd)
  \/ \E p \in PCB, q \in PCB : FileTableCopy(p, q)

\* the rendezvous variant plays no part in these calls
InitFiles == Init /\ USE_SEMAPHORE_FOR_WAITPID

SpecFiles == InitFiles /\ [][NextFiles]_vars

\* processes created, exiting and waited for by concurrent threads
NextWait ==
  \/ Bootstrap
  \/ CreateRunprogram
  \/ \E t \in THREADS, p \in PCB, s \in STATUS : ExitCall(t, p, s)
  \/ \E t \in THREADS, pid \in 1..MAX_PROC : WaitCall(t, pid)
  \/ \E t \in THREADS : SignalStep(t)
  \/ \E t \in THREADS : WaitStep(t)

SpecWait == Init /\ [][NextWait]_vars

\* a thread inside proc_signal_end or proc_wait that can take a step
\* eventually takes one
FairSpecWait ==
  /\ Init /\ [][NextWait]_vars
  /\ \A t \in THREADS : WF_vars(SignalStep(t)) /\ WF_vars(WaitStep(t))

\* duplications and destroys by concurrent threads
NextFT ==
  \/ Bootstrap
  \/ CreateRunprogram
  \/ \E p \in PCB, fd \in FDS : Open(p, fd)
  \/ \E t \in THREADS, p \in PCB, q \in PCB : CopyCall(t, p, q)
  \/ \E t \in THREADS : CopyStep(t)
  \/ \E t \in THREADS : CopyFault(t)
  \/ \E t \in THREADS, p \in PCB : DestroyCall(t, p)
  \/ \E t \in THREADS : DestroyStep(t)

SpecFT == InitFiles /\ [][NextFT]_vars

\* duplications by concurrent threads, no proc destroyed and no file
\* opened: the locks a duplication takes do not depend on the handles
NextDup ==
  \/ Bootstrap
  \/ CreateRunprogram
  \/ \E t \in THREADS, p \in PCB, q \in PCB : CopyCall(t, p, q)
  \/ \E t \in THREADS : CopyStep(t)

\* a thread inside proc_file_table_copy that can take a step eventually
\* takes one
FairSpecDup ==
  /\ InitFiles /\ [][NextDup]_vars
  /\ \A t \in THREADS : WF_vars(CopyStep(t))

\* the process table, the parent links and the working directory under
\* whole calls of one thread
NextProc ==
  \/ Bootstrap
  \/ CreateRunprogram
  \/ \E p \in PCB : OnlyReference(p) /\ Destroy(p)
  \/ \E pid \in PIDARGS : SearchPid(pid)
  \/ \E c \in PCB, p \in PCB : SetParent(c, p)
  \/ \E pid \in PIDARGS : RmParentLink(pid)
  \/ Chdir

SpecProc == InitFiles /\ [][NextProc]_vars

\* the unattached threads being alike, the least of them is the one attached
NextToAttach(t) ==
  \A u \in THREADS : u < t => t_proc[u] # NULL \/ thr[u].pc # "idle"

\* no thread has been attached to a proc yet
NoneAttached ==
  \A u \in THREADS : t_proc[u] = NULL /\ thr[u].pc = "idle"

\* no proc_destroy is at work
NoneDestroyed == \A p \in PCB : ~BeingDestroyed(p)

\* threads attached to and detached from processes by calls that overlap;
\* a proc is destroyed, by the menu thread, when it has no thread left
NextThreads ==
  \/ Bootstrap
  \/ CreateRunprogram
  \/ \E t \in THREADS, p \in PCB : NextToAttach(t) /\ AttachCall(t, p)
  \/ \E t \in THREADS : DetachCall(t)
  \/ \E t \in THREADS : ThreadStep(t)
  \/ \E p \in PCB : pcb[p].p_numthreads = 0 /\ Destroy(p)

SpecThreads == InitFiles /\ [][NextThreads]_vars

\* address spaces loaded by the threads of user processes and torn down by
\* proc_destroy, one call at a time, by a thread of the proc or by another
\* one; the procs are created before the threads are attached, to procs that
\* are not being destroyed
NextTeardown ==
  \/ Bootstrap
  \/ Quiet /\ NoneAttached /\ CreateRunprogram
  \/ \E t \in THREADS, p \in PCB :
       p # kproc /\ ~BeingDestroyed(p) /\ NextToAttach(t)
         /\ AttachCall(t, p)
  \/ \E t \in THREADS : AttachCount(t)
  \/ \E t \in THREADS : AttachLink(t)
  \/ \E t \in THREADS, a \in AS : LoadAs(t, a)
  \/ \E t \in THREADS : TimerActivate(t)
  \/ \E t \in THREADS, p \in PCB :
       ~ThreadCallOn(p) /\ ~everDestroyed /\ NoneDestroyed
         /\ DestroyVmCall(t, p)
  \/ \E t \in THREADS : DestroyVmStep(t)
  \/ \E t \in THREADS : DestroyStep(t)

SpecTeardown == InitFiles /\ [][NextTeardown]_vars

\* creations and destroys by concurrent threads; a proc is destroyed only
\* once its creation has returned
NextCreate ==
  \/ Bootstrap
  \/ \E t \in THREADS : CreateCall(t)
  \/ \E t \in THREADS : CreateStep(t)
  \/ \E t \in THREADS, p \in PCB : ~BeingCreated(p) /\ DestroyCall(t, p)
  \/ \E t \in THREADS : DestroyStep(t)

SpecCreate == InitFiles /\ [][NextCreate]_vars

\* ------------------------------------------------------------- claims
\* the processes proc_create_runprogram created that are still allocated
Created == { p \in PCB : pcb[p].alive /\ p # kproc }

\* C1: after proc_bootstrap and with no proc_destroy so far, every creation
\* that finds fewer than MAX_PROC created processes alive succeeds, the
\* created processes hold pairwise distinct identifiers in [1, MAX_PROC],
\* and a creation returns no process only when MAX_PROC of them are alive.
C1_CreationsFillTable ==
  (Booted /\ ~everDestroyed) =>
     /\ \A p \in Created : pcb[p].p_pid \in 1..MAX_PROC
     /\ \A p \in Created, q \in Created :
          p # q => pcb[p].p_pid # pcb[q].p_pid
     /\ ret.op = "create" =>
          IF ret.val = NULL THEN Cardinality(Created) = MAX_PROC
                            ELSE ret.val \in Created

\* C2: the kernel process is never registered: no slot of the process
\* table references kproc and kproc's identifier stays 0.
C2_KprocNotRegistered ==
  Booted => /\ \A i \in 0..MAX_PROC : processTable.proc[i] # kproc
            /\ pcb[kproc].p_pid = 0

\* C3: after a release (proc_destroy's proc_end_waitpid) the table is not
\* reported full, and an allocation issued next succeeds and is assigned a
\* slot that was free.
C3_ReleaseThenAllocate ==
  [][ /\ ret.op = "destroy" => ~is_proc_table_full(processTable)
      /\ (ret.op = "destroy" /\ ret'.op = "create") =>
            /\ ret'.val # NULL
            /\ processTable.proc[pcb'[ret'.val].p_pid] = NULL
            /\ processTable'.proc[pcb'[ret'.val].p_pid] = ret'.val ]_vars

\* the reference count of h is the number of descriptor slots referencing it
ExactCount(h) == of[h].countRef = Refs(h)

\* C7: after any sequence of duplications and destroys every handle's
\* reference count equals the number of descriptor slots referencing it.
C7_RefcountEqualsSlots == \A h \in OFS : ExactCount(h)

\* the step is a duplication into a table that held a handle
CopyOverHandles ==
  /\ ret'.op = "copy"
  /\ \E fd \in FDS : pcb[ret'.arg].fileTable[fd] # NULL

\* C8: a handle is closed by the last decrement and by no other: its node
\* is not closed while the count is positive, a referenced handle has a
\* positive count, a handle whose count reached zero was closed exactly
\* once, and as long as every duplication goes into an empty table the
\* count is the number of referencing slots (so releasing A leaves B's
\* handle open and releasing both closes it once).
C8_LastDecrementCloses ==
  /\ [](\A h \in OFS :
          /\ of[h].nclose <= 1
          /\ of[h].countRef > 0 => of[h].nclose = 0
          /\ Refs(h) > 0 => of[h].countRef > 0
          /\ (of[h] # FreeOF /\ of[h].countRef = 0) => of[h].nclose = 1)
  /\ [][ ((\A h \in OFS : ExactCount(h)) /\ ~CopyOverHandles)
            => (\A h \in OFS : of'[h].countRef =
                  Cardinality({ x \in PCB \X FDS :
                     pcb'[x[1]].alive /\ pcb'[x[1]].fileTable[x[2]] = h })) ]_vars

\* a handle duplicated once whose two holders were both destroyed
C8_Witness ==
  \E h \in OFS : /\ of[h].nclose = 1 /\ of[h].countRef = 0
                 /\ of[h].vn_refcount = 1 /\ Refs(h) = 0

\* the exiting thread of process p has executed its V or cv_signal
SignalIssued(p) ==
  \E u \in THREADS : thr[u].proc = p /\ thr[u].pc \in SignalledPcs

\* C4: the step that completes proc_wait(p) returns the status the exiting
\* thread of p recorded before proc_signal_end(p), and leaves the slot of
\* p's identifier empty, so that proc_search_pid of it returns NULL.
C4_WaitReturnsExitStatus ==
  [][ \A t \in THREADS :
        (thr[t].pc = "w_collect" /\ thr'[t].pc = "idle") =>
          /\ ret'.op = "wait" /\ ret'.arg = thr[t].pid
          /\ \E u \in THREADS : /\ thr[u].proc = thr[t].proc
                                /\ thr[u].pc = "zombie"
                                /\ ret'.val = thr[u].status
          /\ proc_search_pid(processTable', ret'.arg) = NULL ]_vars

\* a wait has returned the largest status and its identifier looks up empty
C4_Witness ==
  /\ ret.op = "wait"
  /\ ret.val = MaxStatus
  /\ proc_search_pid(processTable, ret.arg) = NULL

\* C5: once proc_signal_end(p) has been called and a thread is inside
\* proc_wait(p), that wait eventually returns, in both builds.
C5_WaitEventuallyReturns ==
  \A t \in THREADS, p \in PCB :
    ( /\ thr[t].proc = p
      /\ thr[t].pc \in WaitBlockedPcs \cup WaitPassedPcs
      /\ \E u \in THREADS : thr[u].proc = p /\ thr[u].pc \in ExitPcs )
    ~> (thr[t].pc = "idle")

\* C6: a thread inside proc_wait(p) is past the rendezvous, about to read
\* the status and destroy p, only after the V or cv_signal of
\* proc_signal_end(p).
C6_SignalBeforeWaitReturns ==
  \A t \in THREADS :
    thr[t].pc \in WaitPassedPcs => SignalIssued(thr[t].proc)

\* a waiter that blocked first and was then let through by the signal
C6_Witness ==
  \E t \in THREADS : thr[t].pc = "w_collect" /\ SignalIssued(thr[t].proc)

\* thread t is inside proc_file_table_copy and holds the ft_lock of proc p
HoldsTableLock(t, p) ==
  /\ thr[t].pc \in CopyPcs
  /\ p \in { thr[t].psrc, thr[t].pdest }
  /\ pcb[p].alive
  /\ pcb[p].ft_lock = t

\* C9: while a duplication holds the table lock of a process and does not
\* itself take a step, no other thread changes a slot of that process's
\* file table, takes a reference off a handle in it, or closes one: the
\* destroy path's decrements are kept out of the copy's critical section.
C9_DestroyExcludedFromCopy ==
  [][ \A t \in THREADS, p \in PCB :
        (HoldsTableLock(t, p) /\ thr'[t] = thr[t])
          => /\ pcb'[p].fileTable = pcb[p].fileTable
             /\ \A fd \in FDS :
                  LET h == pcb[p].fileTable[fd]
                  IN h # NULL => /\ of'[h].countRef >= of[h].countRef
                                 /\ of'[h].nclose = of[h].nclose ]_vars

\* the lock the thread is about to acquire, NULL when it is not at a
\* lock_acquire
AwaitedLockHolder(t) ==
  CASE thr[t].pc = "cp_lock_copy" -> ft_copy_lock
    [] thr[t].pc = "cp_lock_src"  -> pcb[thr[t].psrc].ft_lock
    [] thr[t].pc = "cp_lock_dst"  -> pcb[thr[t].pdest].ft_lock
    [] OTHER                      -> NULL

\* two threads each wait for a lock the other holds
CircularWait ==
  \E t \in THREADS, u \in THREADS :
    t # u /\ AwaitedLockHolder(t) = u /\ AwaitedLockHolder(u) = t

\* some thread inside a duplication is not blocked
SomeCopyCanStep ==
  \E t \in THREADS : thr[t].pc \in CopyPcs /\ AwaitedLockHolder(t) = NULL

\* C10: two threads duplicating between the same two processes in opposite
\* directions never wait for each other's lock, some duplication in
\* progress can always go on, and every duplication returns.
C10_OppositeCopiesNoDeadlock ==
  /\ [](~CircularWait)
  /\ []((\E t \in THREADS : thr[t].pc \in CopyPcs) => SomeCopyCanStep)
  /\ \A t \in THREADS : (thr[t].pc \in CopyPcs) ~> (thr[t].pc = "idle")

\* two threads are inside copy(a, b) and copy(b, a), one holding both table
\* locks, the other waiting for the global copy lock
C10_Witness ==
  \E t \in THREADS, u \in THREADS :
    /\ t # u
    /\ thr[t].pc = "cp_loop" /\ thr[u].pc = "cp_lock_copy"
    /\ thr[t].psrc = thr[u].pdest /\ thr[t].pdest = thr[u].psrc
    /\ AwaitedLockHolder(u) = t


\* C11: a creation whose own registration found the table full leaves every
\* slot as it was, returns no process and has released the PCB it had
\* built.
C11_FullRegistrationFailsCreation ==
  [][ \A t \in THREADS :
        /\ (thr[t].pc = "c_register" /\ thr'[t].pc = "c_check"
               /\ thr'[t].pid = 0)
             => processTable'.proc = processTable.proc
        /\ (thr[t].pc = "c_check" /\ thr[t].pid = 0 /\ thr'[t].pc = "idle")
             => /\ ret'.val = NULL
                /\ ~pcb'[thr[t].proc].alive
                /\ processTable'.proc = processTable.proc ]_vars


\* the parent back-reference of q designates the process of identifier pid
Designates(q, pid) ==
  /\ pcb[q].alive /\ pcb[q].parent_proc # NULL
  /\ pcb[pcb[q].parent_proc].alive
  /\ pcb[pcb[q].parent_proc].p_pid = pid

\* C12: proc_rm_parent_link(pid) empties the parent back-reference of every
\* registered process whose back-reference designates the process of
\* identifier pid, and changes no other back-reference, no table slot, no
\* identifier and no lifecycle state.
C12_RmParentLinkFrame ==
  [][ ret'.op = "rmlink" =>
        /\ \A q \in PCB :
             /\ pcb'[q].parent_proc =
                  IF (\E i \in 1..MAX_PROC : processTable.proc[i] = q)
                       /\ Designates(q, ret'.arg)
                    THEN NULL ELSE pcb[q].parent_proc
             /\ pcb'[q].p_pid = pcb[q].p_pid
             /\ pcb'[q].alive = pcb[q].alive
             /\ pcb'[q].p_exited = pcb[q].p_exited
             /\ pcb'[q].p_status = pcb[q].p_status
        /\ processTable' = processTable ]_vars

\* a call has just cleared the link of a child and left another process's
\* link to a different parent in place
C12_Witness ==
  /\ ret.op = "rmlink" /\ ret.val >= 1
  /\ \E q \in PCB : pcb[q].alive /\ pcb[q].parent_proc # NULL


\* C13: proc_search_pid of an identifier outside [1, MAX_PROC] (0 and the
\* negative ones included) gets to its return, with NULL; of an identifier
\* in range it returns what the slot holds; in both cases no state of the
\* kernel is changed.
C13_LookupTotalAndPure ==
  /\ [](Booted => \A pid \in PIDARGS :
                    (pid < 1 \/ pid > MAX_PROC) => ENABLED SearchPid(pid))
  /\ [][ ret'.op = "search" =>
           /\ ret'.val = IF ret'.arg \in 1..MAX_PROC
                           THEN processTable.proc[ret'.arg]
                           ELSE NULL
           /\ UNCHANGED << kproc, processTable, pcb, of, dirref,
                           ft_copy_lock, thr, vmvars >> ]_vars

\* the lookup of a negative identifier has returned NULL, the table
\* holding MAX_PROC processes
C13_Witness ==
  /\ ret.op = "search" /\ ret.arg < 0 /\ ret.val = NULL
  /\ \A i \in 1..MAX_PROC : processTable.proc[i] # NULL


\* the processes that hold a reference to the directory vnode
CwdHolders == { p \in PCB : pcb[p].alive /\ pcb[p].p_cwd # NULL }

\* C14: a proc_create_runprogram that returns a process while the current
\* process has a working directory adds exactly one reference to the
\* directory vnode and gives it to the new process; one that returns no
\* process leaves the count; proc_destroy gives the reference of the proc
\* back and clears it - so the count is the number of holders.
C14_CwdReferenceBalance ==
  /\ [](dirref = Cardinality(CwdHolders))
  /\ [][ /\ ret'.op = "create" =>
             IF ret'.val # NULL /\ pcb[CurProc].p_cwd # NULL
               THEN /\ dirref' = dirref + 1
                    /\ pcb'[ret'.val].p_cwd = pcb[CurProc].p_cwd
               ELSE dirref' = dirref
         /\ ret'.op = "destroy" =>
             \A p \in PCB :
               (pcb[p].alive /\ ~pcb'[p].alive) =>
                  /\ dirref' = IF pcb[p].p_cwd # NULL THEN dirref - 1
                                                       ELSE dirref
                  /\ pcb'[p].p_cwd = NULL ]_vars

\* after a create and a destroy, a creation has handed the new process a
\* reference to the directory of the current process
C14_Witness ==
  /\ ret.op = "create" /\ ret.val # NULL
  /\ pcb[ret.val].p_cwd # NULL
  /\ everDestroyed
  /\ dirref = 2


\* the free slots of [1, MAX_PROC]
FreeSlots == { i \in 1..MAX_PROC : processTable.proc[i] = NULL }

\* place of slot i in the circular order last_i+1, ..., MAX_PROC, 1, ...,
\* last_i
CircularRank(i) == (i - processTable.last_i - 1) % MAX_PROC

\* the first free slot in the circular order
FirstFreeSlot ==
  CHOOSE i \in FreeSlots :
    \A j \in FreeSlots : CircularRank(i) <= CircularRank(j)

\* C15: a creation finds the table full only when every slot of
\* [1, MAX_PROC] is occupied; otherwise its proc gets the first free slot in
\* the circular order after last_i, that index as identifier, last_i becomes
\* that index and the other slots are left alone.
C15_CircularScanResult ==
  [][ ret'.op = "create" =>
        IF FreeSlots = {}
          THEN ret'.val = NULL /\ processTable'.proc = processTable.proc
          ELSE /\ ret'.val # NULL
               /\ ~is_proc_table_full(processTable')
               /\ pcb'[ret'.val].p_pid = FirstFreeSlot
               /\ processTable'.last_i = FirstFreeSlot
               /\ processTable'.proc =
                    [ processTable.proc EXCEPT ![FirstFreeSlot] = ret'.val ]
    ]_vars

\* thread t takes the step that follows position pc of its call
Leaves(t, pc) == thr[t].pc = pc /\ thr'[t].pc \notin { pc, "panic" }

\* the procs whose address-space pointer is a
AsHolders(a) == { p \in PCB : pcb[p].p_addrspace = a }

\* C16: in proc_destroy of the current process the address-space pointer is
\* emptied first, then the hardware mapping is deactivated, and only then the
\* address space is destroyed; when as_destroy runs, in either case, no proc
\* points to the address space, and no proc ever points to a destroyed one.
C16_TeardownOrdering ==
  /\ [](\A p \in PCB : pcb[p].p_addrspace # NULL
                          => asstate[pcb[p].p_addrspace] = "live")
  /\ [][ \A t \in THREADS :
           /\ ( Leaves(t, "d_swap") /\ thr[t].proc = t_proc[t] )
                => /\ thr'[t].pc = "d_deact"
                   /\ thr'[t].as = pcb[thr[t].proc].p_addrspace
                   /\ pcb'[thr[t].proc].p_addrspace = NULL
                   /\ asstate' = asstate /\ mmu' = mmu
           /\ ( Leaves(t, "d_deact") )
                => /\ thr'[t].pc = "d_asdestroy"
                   /\ mmu' = NULL
                   /\ asstate'[thr[t].as] = "live"
           /\ ( Leaves(t, "d_asdestroy") )
                => /\ asstate'[thr[t].as] = "destroyed"
                   /\ AsHolders(thr[t].as) = {}
                   /\ thr[t].proc = t_proc[t] => mmu # thr[t].as
     ]_vars
  /\ [][ \A a \in AS :
           asstate'[a] = "destroyed" /\ asstate[a] # "destroyed"
             => \E t \in THREADS : thr[t].pc = "d_asdestroy" /\ thr[t].as = a
     ]_vars

\* a proc_destroy of the current process has destroyed the address space
C16_Witness ==
  \E t \in THREADS :
    /\ thr[t].pc = "d_assert"
    /\ thr[t].proc = t_proc[t]
    /\ thr[t].as # NULL
    /\ asstate[thr[t].as] = "destroyed"
    /\ mmu = NULL

\* the threads whose back-reference is p
ThreadsOf(p) == { t \in THREADS : t_proc[t] = p }

\* C17: whenever no proc_addthread or proc_remthread is at work on a proc
\* its thread count is the number of threads that point back to it (as long
\* as the kernel runs: a panic stops the calls where they are); each
\* call changes the count before it writes the back-reference, and the
\* count a detach decrements is positive and never falls below zero.
C17_ThreadAccounting ==
  /\ [](\A p \in PCB :
          /\ pcb[p].p_numthreads >= 0
          /\ pcb[p].alive /\ ~ThreadCallOn(p) /\ ~KernelPanicked
               => pcb[p].p_numthreads = Cardinality(ThreadsOf(p)))
  /\ [](\A t \in THREADS :
          thr[t].pc = "dt_dec" => /\ pcb[thr[t].proc].alive
                                  /\ pcb[thr[t].proc].p_numthreads > 0)
  /\ [][ \A t \in THREADS :
           /\ t_proc'[t] # t_proc[t] => thr[t].pc \in { "at_link", "dt_link" }
           /\ ( Leaves(t, "at_inc") )
                => /\ thr'[t].pc = "at_link"
                   /\ t_proc'[t] = t_proc[t]
                   /\ pcb'[thr[t].proc].p_numthreads
                        = pcb[thr[t].proc].p_numthreads + 1
           /\ ( Leaves(t, "dt_dec") )
                => /\ thr'[t].pc = "dt_link"
                   /\ t_proc'[t] = t_proc[t]
                   /\ pcb'[thr[t].proc].p_numthreads
                        = pcb[thr[t].proc].p_numthreads - 1
     ]_vars

\* two threads are attached to one proc and no call is at work on it
C17_Witness ==
  \E p \in PCB :
    /\ pcb[p].alive /\ ~ThreadCallOn(p)
    /\ Cardinality(ThreadsOf(p)) = 2
    /\ pcb[p].p_numthreads = 2

\* the occupied slots of [1, MAX_PROC]
OccupiedSlots == { i \in 1..MAX_PROC : processTable.proc[i] # NULL }

\* C18: every occupied slot i of [1, MAX_PROC] references a proc whose
\* identifier is i, slot 0 is empty and no two occupied slots reference the
\* same proc.
C18_TableConsistency ==
  /\ processTable.proc[0] = NULL
  /\ \A i \in OccupiedSlots : pcb[processTable.proc[i]].p_pid = i
  /\ \A i, j \in OccupiedSlots :
       processTable.proc[i] = processTable.proc[j] => i = j

\* C19: with proc_create and proc_destroy called by concurrent threads, a
\* proc_create returns a proc exactly when its own proc_init_waitpid gave
\* it a slot, the proc it returns is the one that slot references, it frees
\* the PCB only when its registration gave it no slot, and no slot
\* references a freed PCB.
C19_CreateFollowsOwnRegistration ==
  /\ [](\A i \in OccupiedSlots : pcb[processTable.proc[i]].alive)
  /\ [][ \A t \in THREADS :
           ( thr[t].pc = "c_check" /\ thr'[t].pc = "idle" )
             => /\ ret'.val # NULL <=> thr[t].pid # 0
                /\ ret'.val # NULL
                     => /\ thr[t].pid \in 1..MAX_PROC
                        /\ processTable'.proc[thr[t].pid] = ret'.val
                        /\ pcb'[ret'.val].p_pid = thr[t].pid
                /\ ~pcb'[thr[t].proc].alive <=> thr[t].pid = 0
     ]_vars

\* C20: in every state of the table that creations and destructions
\* produce, a completely full table included, the scan loop of
\* proc_init_waitpid leaves its loop (last_i, once the kernel process is
\* registered, is one of the indices 1..MAX_PROC the scan cycles through),
\* so the table spinlock is released.
C20_ScanTerminates ==
  /\ ScanTerminates(processTable)
  /\ Booted => processTable.last_i \in 1..MAX_PROC

\* a creation has run its scan on a completely full table and returned
C20_Witness ==
  /\ OccupiedSlots = 1..MAX_PROC
  /\ ret.op = "create" /\ ret.val = NULL
  /\ processTable.is_full

=============================================================================
